---- MODULE Spec2Model ----
(***************************************************************************)
(* A model of the LitePolis default router (litepolis_router_default/      *)
(* core.py): the Polis-compatible REST handlers and the records they keep  *)
(* through DatabaseActor.  Every handler is an operator from the stored    *)
(* records and the request to the stored records afterwards and the HTTP   *)
(* answer; an action applies one handler to one request.                   *)
(*                                                                         *)
(* DatabaseActor is the persistence collaborator the router calls.  It is  *)
(* modelled as a plain record store, one operator per call the router      *)
(* makes: create_* appends a record under a fresh id, read/get_* return    *)
(* the first record that matches (<<>> when there is none), update_*       *)
(* rewrites the record with the given id.  The store checks nothing the    *)
(* router does not check.                                                  *)
(***************************************************************************)
EXTENDS Integers, Sequences, FiniteSets, TLC

VARIABLES db, resp, acked, inflight, start

vars == <<db, resp, acked, inflight, start>>

(* ------------------------------ bounds --------------------------------- *)

MaxUsers == 2

MaxConvs == 1

MaxComments == 1

MaxVotes == 2

\* Comments in the store of the participation runs.
MaxThread == 2

\* Invite codes ever issued.
MaxInvites == 2

\* Votes in the store of the participation runs.
MaxCast == 1

\* Anonymous participants in the store of the participation runs.
MaxAnonymous == 0

(* ------------------------------ inputs --------------------------------- *)

\* Addresses in the order new users take them.  The router only compares
\* addresses for equality, so a registration is tried with the empty
\* address, with every address already registered and with one new one.
Emails == <<"a@example.com", "b@example.com", "c@example.com", "d@example.com">>

PasswordInputs == {"pw", ""}

TxtInputs == {"text", " ", ""}

\* topic of POST /conversations: absent.
TopicInputs == {<<>>}

\* A check that lets one more value through.
VoteValuesLoose == {-1, 0, 1, 2}

\* The values create_vote accepts (core.py: vote not in [-1, 0, 1]).
VoteValues == {-1, 0, 1}

VoteInputs == VoteValues \cup {2}

\* Passwords of login, deregistration and password change.
AccountPasswords == {"pw", "pw2", ""}

\* Body of POST /auth/deregister: none, or one with a password.
DeregisterInputs == {<<>>} \cup {<<p>> : p \in AccountPasswords}

\* topic, description and is_active of PUT /conversations: absent or given.
TopicUpdates == {<<>>, <<"topic">>}

DescriptionUpdates == {<<>>, <<"about">>}

ActiveUpdates == {<<>>, <<TRUE>>, <<FALSE>>}

\* mod of PUT /comments: absent or rejected (-1).
ModInputs == {<<>>, <<-1>>}

\* uid2 cookie: 0 stands for a missing or unparsable cookie.
Uid2Inputs == 0..MaxUsers

\* conversation_id (a zinvite code): the codes of the conversations that can
\* exist and one more.
ConvIdInputs == 1..(MaxConvs + 1)

\* zid of /zinvites/{zid}: one more than the conversations that can exist.
ZidInputs == 1..(MaxConvs + 1)

\* tid: one more than the comments that can exist.
TidInputs == 1..(MaxComments + 1)

\* What a request carries for get_current_user: a token (Bearer header or
\* token2 cookie) or none, and the uid2 cookie.
AuthInputs ==
    {[token |-> FALSE, uid2 |-> 0]}
        \cup {[token |-> TRUE, uid2 |-> u] : u \in Uid2Inputs}

\* Requests with neither a Bearer header nor a token2 cookie.
AnonInputs == {[token |-> FALSE, uid2 |-> u] : u \in Uid2Inputs}

(* ------------------------------ helpers -------------------------------- *)

ToSet(s) == {s[i] : i \in 1..Len(s)}

SetMax(S) == CHOOSE x \in S : \A y \in S : y <= x

\* Python's hashlib.sha256(password.encode()).hexdigest(): injective on the
\* passwords used here, and never equal to a password.
sha256(p) == <<"sha256", p>>

\* str.strip() on the comment texts used here.
strip(t) == IF t = " " THEN "" ELSE t

(* --------------------------- DatabaseActor ----------------------------- *)

EmptyDb ==
    [users |-> <<>>, conversations |-> <<>>, zinvites |-> <<>>,
     participants |-> <<>>, comments |-> <<>>, votes |-> <<>>,
     zinvite_seq |-> 0]

NextId(table) ==
    IF table = <<>> THEN 1 ELSE SetMax({r.id : r \in ToSet(table)}) + 1

Matching(table, Test(_)) == SelectSeq(table, Test)

First(s) == IF s = <<>> THEN <<>> ELSE <<Head(s)>>

read_user(d, uid) ==
    LET Test(u) == u.id = uid IN First(Matching(d.users, Test))

read_user_by_email(d, email) ==
    LET Test(u) == u.email = email IN First(Matching(d.users, Test))

db_create_user(d, email, auth_token) ==
    LET user == [id |-> NextId(d.users), email |-> email,
                 auth_token |-> auth_token, is_admin |-> FALSE]
    IN [db |-> [d EXCEPT !.users = Append(@, user)], rec |-> user]

\* update_user / update_conversation / update_comment: the record with the
\* given id gets the fields of update_data, the others keep theirs.
Updated(rec, update_data) ==
    [f \in DOMAIN rec |->
        IF f \in DOMAIN update_data THEN update_data[f] ELSE rec[f]]

db_update_user(d, uid, update_data) ==
    LET users == [i \in DOMAIN d.users |->
                    IF d.users[i].id = uid
                    THEN Updated(d.users[i], update_data) ELSE d.users[i]]
        Test(u) == u.id = uid
    IN [db |-> [d EXCEPT !.users = users], rec |-> First(Matching(users, Test))]

delete_user(d, uid) ==
    LET Test(u) == u.id # uid
    IN [d EXCEPT !.users = Matching(@, Test)]

\* A lookup that falls back to the first conversation, as get_current_user
\* falls back to user 1.
get_zid_or_first(d, code) ==
    LET Test(z) == z.zinvite = code
        found == Matching(d.zinvites, Test)
    IN IF found # <<>> THEN Head(found).zid
       ELSE IF d.conversations # <<>> THEN Head(d.conversations).id
       ELSE 0

get_zid_by_zinvite(d, code) ==
    LET Test(z) == z.zinvite = code
        found == Matching(d.zinvites, Test)
    IN IF found = <<>> THEN 0 ELSE Head(found).zid

read_conversation(d, zid) ==
    LET Test(c) == c.id = zid IN First(Matching(d.conversations, Test))

db_create_conversation(d, title, description, user_id, is_archived) ==
    LET conv == [id |-> NextId(d.conversations), title |-> title,
                 description |-> description, user_id |-> user_id,
                 is_archived |-> is_archived]
    IN [db |-> [d EXCEPT !.conversations = Append(@, conv)], rec |-> conv]

db_update_conversation(d, zid, update_data) ==
    LET convs == [i \in DOMAIN d.conversations |->
                    IF d.conversations[i].id = zid
                    THEN Updated(d.conversations[i], update_data)
                    ELSE d.conversations[i]]
        Test(c) == c.id = zid
    IN [db |-> [d EXCEPT !.conversations = convs],
        rec |-> First(Matching(convs, Test))]

db_create_zinvite(d, zid) ==
    LET code == d.zinvite_seq + 1
        z == [zinvite |-> code, zid |-> zid]
    IN [db |-> [d EXCEPT !.zinvites = Append(@, z), !.zinvite_seq = code],
        rec |-> z]

get_zinvite_by_zid(d, zid) ==
    LET Test(z) == z.zid = zid IN First(Matching(d.zinvites, Test))

get_or_create_zinvite(d, zid) ==
    LET found == get_zinvite_by_zid(d, zid)
    IN IF found # <<>> THEN [db |-> d, rec |-> Head(found)]
       ELSE db_create_zinvite(d, zid)

delete_zinvites_by_zid(d, zid) ==
    LET Test(z) == z.zid # zid
    IN [d EXCEPT !.zinvites = Matching(@, Test)]

count_participants(d, zid) ==
    Cardinality({i \in DOMAIN d.participants : d.participants[i].zid = zid})

count_comments_in_conversation(d, zid) ==
    Cardinality({i \in DOMAIN d.comments :
                    d.comments[i].conversation_id = zid})

list_participants_by_zid(d, zid) ==
    LET Test(p) == p.zid = zid IN Matching(d.participants, Test)

get_participant_by_zid_uid(d, zid, uid) ==
    LET Test(p) == p.zid = zid /\ p.uid = uid
    IN First(Matching(d.participants, Test))

db_create_participant(d, zid, uid) ==
    LET p == [pid |-> Len(d.participants) + 1, zid |-> zid, uid |-> uid,
              vote_count |-> 0]
    IN [db |-> [d EXCEPT !.participants = Append(@, p)], rec |-> p]

\* A get_or_create_participant that does not look for the participant.
get_or_create_participant_always(d, zid, uid) ==
    db_create_participant(d, zid, uid)

get_or_create_participant(d, zid, uid) ==
    LET found == get_participant_by_zid_uid(d, zid, uid)
    IN IF found # <<>> THEN [db |-> d, rec |-> Head(found)]
       ELSE db_create_participant(d, zid, uid)

\* get_or_create_anonymous_participant: the pc token is a new uuid on every
\* request, so no participant is ever found for it and one is created; an
\* anonymous participant has no user (uid 0).
get_or_create_anonymous_participant(d, zid) ==
    db_create_participant(d, zid, 0)

increment_vote_count(d, pid) ==
    [d EXCEPT !.participants =
        [i \in DOMAIN @ |->
            IF @[i].pid = pid
            THEN [@[i] EXCEPT !.vote_count = @ + 1] ELSE @[i]]]

list_comments_by_conversation_id(d, zid) ==
    LET Test(c) == c.conversation_id = zid IN Matching(d.comments, Test)

db_create_comment(d, user_id, zid) ==
    LET c == [id |-> NextId(d.comments), user_id |-> user_id,
              conversation_id |-> zid, moderation_status |-> 0]
    IN [db |-> [d EXCEPT !.comments = Append(@, c)], rec |-> c]

read_comment(d, tid) ==
    LET Test(c) == c.id = tid IN First(Matching(d.comments, Test))

db_update_comment(d, tid, update_data) ==
    LET comments == [i \in DOMAIN d.comments |->
                       IF d.comments[i].id = tid
                       THEN Updated(d.comments[i], update_data)
                       ELSE d.comments[i]]
        Test(c) == c.id = tid
    IN [db |-> [d EXCEPT !.comments = comments],
        rec |-> First(Matching(comments, Test))]

list_votes_by_user_id(d, uid) ==
    LET Test(v) == v.user_id = uid IN Matching(d.votes, Test)

\* A lookup by user alone.
get_vote_by_user(d, uid, tid) ==
    LET Test(v) == v.user_id = uid IN First(Matching(d.votes, Test))

\* A lookup that never matches.
get_vote_never_found(d, uid, tid) == <<>>

\* A lookup that takes tid for the vote's own id.
get_vote_by_user_and_vote_id(d, uid, tid) ==
    LET Test(v) == v.user_id = uid /\ v.id = tid
    IN First(Matching(d.votes, Test))

get_vote_by_user_comment(d, uid, tid) ==
    LET Test(v) == v.user_id = uid /\ v.comment_id = tid
    IN First(Matching(d.votes, Test))

\* An update that is never written back.
update_vote_unsaved(d, vid, value) ==
    LET Test(v) == v.id = vid
    IN [db |-> d, rec |-> Head(Matching(d.votes, Test))]

update_vote(d, vid, value) ==
    LET votes == [i \in DOMAIN d.votes |->
                    IF d.votes[i].id = vid
                    THEN [d.votes[i] EXCEPT !.value = value]
                    ELSE d.votes[i]]
        Test(v) == v.id = vid
    IN [db |-> [d EXCEPT !.votes = votes], rec |-> Head(Matching(votes, Test))]

db_create_vote(d, user_id, comment_id, value) ==
    LET v == [id |-> NextId(d.votes), user_id |-> user_id,
              comment_id |-> comment_id, value |-> value]
    IN [db |-> [d EXCEPT !.votes = Append(@, v)], rec |-> v]

EmailInputs(d) ==
    {""} \cup {Emails[i] : i \in 1..(Len(d.users) + 1)}

(* ------------------------------- auth ---------------------------------- *)

\* What get_current_user reads of a request: the token is what follows
\* "Bearer " in the Authorization header, else the token2 cookie, and is
\* tested for being present only; uid2 is the uid2 cookie as an integer.
\* authorization and token2 are <<>> when absent and <<token>> when given.
Credentials(authorization, token2, uid2) ==
    [token |-> IF authorization # <<>> THEN Head(authorization) # ""
               ELSE token2 # <<>> /\ Head(token2) # "",
     uid2 |-> uid2]

\* A get_current_user that falls back to user 1 without a token too.
get_current_user_tokenless(d, auth) ==
    IF auth.uid2 # 0 /\ read_user(d, auth.uid2) # <<>>
    THEN <<Head(read_user(d, auth.uid2)).id>>
    ELSE IF read_user(d, 1) # <<>> THEN <<Head(read_user(d, 1)).id>>
    ELSE <<>>

\* get_current_user: <<>> for None, else <<the user's uid>>.
get_current_user(d, auth) ==
    IF ~auth.token THEN <<>>
    ELSE IF auth.uid2 # 0 /\ read_user(d, auth.uid2) # <<>>
         THEN <<Head(read_user(d, auth.uid2)).id>>
    ELSE IF read_user(d, 1) # <<>> THEN <<Head(read_user(d, 1)).id>>
    ELSE <<>>

NoData == [none |-> TRUE]

Answer(d, status, data) == [db |-> d, status |-> status, data |-> data]

(* ------------------------------ handlers ------------------------------- *)

\* A registration that does not look the email up.
register_user_unchecked(d, email, password) ==
    IF email = "" \/ password = "" THEN Answer(d, 400, NoData)
    ELSE LET c == db_create_user(d, email, sha256(password))
         IN Answer(c.db, 200, [uid |-> c.rec.id, email |-> c.rec.email])

\* POST /auth/new
register_user(d, email, password) ==
    IF email = "" \/ password = "" THEN Answer(d, 400, NoData)
    ELSE IF read_user_by_email(d, email) # <<>> THEN Answer(d, 409, NoData)
    ELSE LET c == db_create_user(d, email, sha256(password))
         IN Answer(c.db, 200, [uid |-> c.rec.id, email |-> c.rec.email])

\* create_token: the first 32 hex digits of a SHA-256 over the secret, the
\* uid, the email and the time of issue.  No handler reads a token's content,
\* so the time of issue is left out of its model.
create_token(uid, email) == <<"token", uid, email>>

\* response.set_cookie(token2), response.set_cookie(uid2)
SetCookies(token, uid) == [token2 |-> <<token>>, uid2 |-> <<uid>>]

\* response.delete_cookie(token2), response.delete_cookie(uid2)
DeletedCookies == [token2 |-> <<>>, uid2 |-> <<>>]

\* A login that does not compare the credential.
login_unchecked(d, email, password) ==
    LET user == read_user_by_email(d, email)
    IN IF email = "" \/ password = "" THEN Answer(d, 400, NoData)
       ELSE IF user = <<>>
            THEN Answer(d, 401, [detail |-> "Invalid credentials"])
       ELSE Answer(d, 200,
                [token |-> create_token(Head(user).id, Head(user).email),
                 user_id |-> Head(user).id,
                 data |-> [uid |-> Head(user).id, email |-> Head(user).email],
                 cookies |-> SetCookies(
                     create_token(Head(user).id, Head(user).email),
                     Head(user).id)])

\* POST /auth/login
login(d, email, password) ==
    LET user == read_user_by_email(d, email)
    IN IF email = "" \/ password = "" THEN Answer(d, 400, NoData)
       ELSE IF user = <<>>
            THEN Answer(d, 401, [detail |-> "Invalid credentials"])
       ELSE IF Head(user).auth_token # sha256(password)
            THEN Answer(d, 401, [detail |-> "Invalid credentials"])
       ELSE Answer(d, 200,
                [token |-> create_token(Head(user).id, Head(user).email),
                 user_id |-> Head(user).id,
                 data |-> [uid |-> Head(user).id, email |-> Head(user).email],
                 cookies |-> SetCookies(
                     create_token(Head(user).id, Head(user).email),
                     Head(user).id)])

\* A deregistration that does not compare the credential.
deregister_unchecked(d, auth, request) ==
    LET user == get_current_user(d, auth)
    IN IF user = <<>> THEN Answer(d, 401, NoData)
       ELSE IF request = <<>> \/ request = <<"">>
            THEN Answer(d, 200, [logged_out |-> TRUE,
                                 cookies |-> DeletedCookies])
       ELSE Answer(delete_user(d, Head(user)), 200,
                   [deleted |-> TRUE, cookies |-> DeletedCookies])

\* POST /auth/deregister.  request is <<>> for a request without a body and
\* <<password>> for a body with a password.
deregister(d, auth, request) ==
    LET user == get_current_user(d, auth)
        user_obj == read_user(d, Head(user))
    IN IF user = <<>> THEN Answer(d, 401, NoData)
       ELSE IF request = <<>> \/ request = <<"">>
            THEN Answer(d, 200, [logged_out |-> TRUE,
                                 cookies |-> DeletedCookies])
       ELSE IF user_obj = <<>>
               \/ Head(user_obj).auth_token # sha256(Head(request))
            THEN Answer(d, 401, [detail |-> "Invalid password"])
       ELSE Answer(delete_user(d, Head(user)), 200,
                   [deleted |-> TRUE, cookies |-> DeletedCookies])

\* A password change that does not compare the current password.
change_password_unchecked(d, auth, current_password, new_password) ==
    LET user == get_current_user(d, auth)
    IN IF user = <<>> THEN Answer(d, 401, NoData)
       ELSE Answer(db_update_user(d, Head(user),
                       [auth_token |-> sha256(new_password)]).db,
                   200, [changed |-> TRUE])

\* POST /auth/password
change_password(d, auth, current_password, new_password) ==
    LET user == get_current_user(d, auth)
        user_obj == read_user(d, Head(user))
    IN IF user = <<>> THEN Answer(d, 401, NoData)
       ELSE IF user_obj = <<>> THEN Answer(d, 404, NoData)
       ELSE IF Head(user_obj).auth_token # sha256(current_password)
            THEN Answer(d, 401, [detail |-> "Invalid current password"])
       ELSE Answer(db_update_user(d, Head(user),
                       [auth_token |-> sha256(new_password)]).db,
                   200, [changed |-> TRUE])

\* GET /users
get_user(d, auth) ==
    LET user == get_current_user(d, auth)
        user_obj == read_user(d, Head(user))
    IN IF user = <<>> THEN Answer(d, 401, NoData)
       ELSE IF user_obj = <<>> THEN Answer(d, 404, NoData)
       ELSE Answer(d, 200, [uid |-> Head(user_obj).id,
                            email |-> Head(user_obj).email])

\* PUT /users.  email is <<>> when the parameter is absent.
update_user(d, auth, email) ==
    LET user == get_current_user(d, auth)
    IN IF user = <<>> THEN Answer(d, 401, NoData)
       ELSE IF email = <<>> \/ email = <<"">> THEN Answer(d, 400, NoData)
       ELSE LET u == db_update_user(d, Head(user), [email |-> Head(email)])
            IN Answer(u.db, 200, [uid |-> Head(u.rec).id,
                                  email |-> Head(u.rec).email])

\* POST /conversations.  An optional field of a request is <<>> when it is
\* absent (None) and <<value>> when it is given.
create_conversation(d, auth, topic, description, is_active) ==
    LET user == get_current_user(d, auth)
        title == IF topic = <<>> \/ topic = <<"">>
                 THEN "Untitled Conversation" ELSE Head(topic)
    IN IF user = <<>> THEN Answer(d, 401, NoData)
       ELSE LET c == db_create_conversation(d, title, description,
                                            Head(user), ~is_active)
                z == db_create_zinvite(c.db, c.rec.id)
            IN Answer(z.db, 200, [conversation_id |-> z.rec.zinvite,
                                  topic |-> c.rec.title,
                                  description |-> c.rec.description,
                                  is_active |-> ~c.rec.is_archived,
                                  owner |-> c.rec.user_id])

\* The listing loop of GET /conversations over convs, from store d: every
\* conversation gets its zinvite, which is created when it has none.
RECURSIVE list_with_zinvites(_, _, _)
list_with_zinvites(d, convs, user) ==
    IF convs = <<>> THEN [db |-> d, result |-> <<>>]
    ELSE LET conv == Head(convs)
             found == get_zinvite_by_zid(d, conv.id)
             z == IF found # <<>> THEN [db |-> d, rec |-> Head(found)]
                  ELSE db_create_zinvite(d, conv.id)
             rest == list_with_zinvites(z.db, Tail(convs), user)
         IN [db |-> rest.db,
             result |-> <<[conversation_id |-> z.rec.zinvite,
                           topic |-> conv.title,
                           description |-> conv.description,
                           is_active |-> ~conv.is_archived,
                           owner |-> conv.user_id,
                           is_owner |-> user = <<conv.user_id>>,
                           participant_count |->
                               count_participants(z.db, conv.id)]>>
                        \o rest.result]

\* GET /conversations.  conversation_id is <<>> when the parameter is absent.
get_conversations(d, auth, conversation_id) ==
    LET user == get_current_user(d, auth)
        zid == get_zid_by_zinvite(d, Head(conversation_id))
        conv == read_conversation(d, zid)
        listed == list_with_zinvites(d, d.conversations, user)
    IN IF conversation_id = <<>> THEN Answer(listed.db, 200, listed.result)
       ELSE IF zid = 0 THEN Answer(d, 404, NoData)
       ELSE IF conv = <<>> THEN Answer(d, 404, NoData)
       ELSE Answer(d, 200,
                <<[conversation_id |-> Head(conversation_id),
                   topic |-> Head(conv).title,
                   description |-> Head(conv).description,
                   is_active |-> ~Head(conv).is_archived,
                   owner |-> Head(conv).user_id,
                   is_owner |-> user = <<Head(conv).user_id>>,
                   participant_count |-> count_participants(d, zid),
                   comment_count |->
                       count_comments_in_conversation(d, zid)]>>)

\* GET /conversationStats
get_conversation_stats(d, auth, conversation_id) ==
    LET zid == get_zid_by_zinvite(d, conversation_id)
    IN IF zid = 0 THEN Answer(d, 404, NoData)
       ELSE Answer(d, 200,
                [participant_count |-> count_participants(d, zid),
                 comment_count |-> count_comments_in_conversation(d, zid)])

\* A close or reopen that flips the flag it finds.
set_archived_flipping(d, auth, conversation_id, archived, data) ==
    LET user == get_current_user(d, auth)
        zid == get_zid_by_zinvite(d, conversation_id)
        conv == read_conversation(d, zid)
    IN IF user = <<>> THEN Answer(d, 401, NoData)
       ELSE IF zid = 0 THEN Answer(d, 404, NoData)
       ELSE IF conv = <<>> THEN Answer(d, 500, NoData)
       ELSE IF Head(conv).user_id # Head(user)
            THEN Answer(d, 403, NoData)
       ELSE Answer(db_update_conversation(d, zid,
                       [is_archived |-> ~Head(conv).is_archived]).db,
                   200, data)

\* user.get("is_admin") of the dict get_current_user returns.
is_admin(d, uid) == Head(read_user(d, uid)).is_admin

\* An update that writes all three fields, an omitted one with its default.
update_conversation_resetting(d, auth, conversation_id, topic, description, is_active) ==
    LET user == get_current_user(d, auth)
        zid == get_zid_by_zinvite(d, conversation_id)
        conv == read_conversation(d, zid)
        u == db_update_conversation(d, zid,
                 [title |-> IF topic # <<>> THEN Head(topic)
                            ELSE "Untitled Conversation",
                  description |-> description,
                  is_archived |-> IF is_active # <<>> THEN ~Head(is_active)
                                  ELSE FALSE])
    IN IF user = <<>> THEN Answer(d, 401, NoData)
       ELSE IF zid = 0 THEN Answer(d, 404, NoData)
       ELSE IF conv = <<>> THEN Answer(d, 404, NoData)
       ELSE IF Head(conv).user_id # Head(user) THEN Answer(d, 403, NoData)
       ELSE Answer(u.db, 200,
                   [conversation_id |-> conversation_id,
                    topic |-> Head(u.rec).title,
                    description |-> Head(u.rec).description,
                    is_active |-> ~Head(u.rec).is_archived])

\* PUT /conversations.  topic, description and is_active are <<>> when the
\* request leaves them out.
update_conversation(d, auth, conversation_id, topic, description, is_active) ==
    LET user == get_current_user(d, auth)
        zid == get_zid_by_zinvite(d, conversation_id)
        conv == read_conversation(d, zid)
        fields == (IF topic # <<>> THEN {"title"} ELSE {})
                    \cup (IF description # <<>> THEN {"description"} ELSE {})
                    \cup (IF is_active # <<>> THEN {"is_archived"} ELSE {})
        update_data == [f \in fields |->
                          CASE f = "title" -> Head(topic)
                            [] f = "description" -> description
                            [] f = "is_archived" -> ~Head(is_active)]
    IN IF user = <<>> THEN Answer(d, 401, NoData)
       ELSE IF zid = 0 THEN Answer(d, 404, NoData)
       ELSE IF conv = <<>> THEN Answer(d, 404, NoData)
       ELSE IF Head(conv).user_id # Head(user) /\ ~is_admin(d, Head(user))
            THEN Answer(d, 403, NoData)
       ELSE LET u == IF fields # {}
                     THEN db_update_conversation(d, zid, update_data)
                     ELSE [db |-> d, rec |-> conv]
            IN Answer(u.db, 200,
                      [conversation_id |-> conversation_id,
                       topic |-> Head(u.rec).title,
                       description |-> Head(u.rec).description,
                       is_active |-> ~Head(u.rec).is_archived])

\* What close and reopen share: is_archived is set to archived.  A zinvite
\* whose conversation is gone makes conv.user_id fail (500).
set_archived(d, auth, conversation_id, archived, data) ==
    LET user == get_current_user(d, auth)
        zid == get_zid_by_zinvite(d, conversation_id)
        conv == read_conversation(d, zid)
    IN IF user = <<>> THEN Answer(d, 401, NoData)
       ELSE IF zid = 0 THEN Answer(d, 404, NoData)
       ELSE IF conv = <<>> THEN Answer(d, 500, NoData)
       ELSE IF Head(conv).user_id # Head(user) /\ ~is_admin(d, Head(user))
            THEN Answer(d, 403, NoData)
       ELSE Answer(db_update_conversation(d, zid,
                       [is_archived |-> archived]).db, 200, data)

\* A close that any authenticated user may do.
close_conversation_by_anyone(d, auth, conversation_id) ==
    LET user == get_current_user(d, auth)
        zid == get_zid_by_zinvite(d, conversation_id)
    IN IF user = <<>> THEN Answer(d, 401, NoData)
       ELSE IF zid = 0 THEN Answer(d, 404, NoData)
       ELSE Answer(db_update_conversation(d, zid,
                       [is_archived |-> TRUE]).db, 200, [closed |-> TRUE])

\* POST /conversation/close
close_conversation(d, auth, conversation_id) ==
    set_archived(d, auth, conversation_id, TRUE, [closed |-> TRUE])

\* POST /conversation/reopen
reopen_conversation(d, auth, conversation_id) ==
    set_archived(d, auth, conversation_id, FALSE, [reopened |-> TRUE])

\* GET /participants
get_participants(d, auth, conversation_id) ==
    LET user == get_current_user(d, auth)
        zid == get_zid_by_zinvite(d, conversation_id)
    IN IF user = <<>> THEN Answer(d, 401, NoData)
       ELSE IF zid = 0 THEN Answer(d, 404, NoData)
       ELSE Answer(d, 200, list_participants_by_zid(d, zid))

\* POST /participants
join_conversation(d, auth, conversation_id) ==
    LET user == get_current_user(d, auth)
        zid == get_zid_by_zinvite(d, conversation_id)
    IN IF user = <<>> THEN Answer(d, 401, NoData)
       ELSE IF zid = 0 THEN Answer(d, 404, NoData)
       ELSE LET p == get_or_create_participant(d, zid, Head(user))
            IN Answer(p.db, 200, p.rec)

\* POST /comments
create_comment(d, auth, conversation_id, txt) ==
    LET user == get_current_user(d, auth)
        zid == get_zid_by_zinvite(d, conversation_id)
    IN IF user = <<>> THEN Answer(d, 401, NoData)
       ELSE IF txt = "" THEN Answer(d, 400, NoData)
       ELSE IF strip(txt) = "" THEN Answer(d, 400, NoData)
       ELSE IF zid = 0 THEN Answer(d, 404, NoData)
       ELSE LET p == get_or_create_participant(d, zid, Head(user))
                c == db_create_comment(p.db, Head(user), zid)
            IN Answer(c.db, 200, [tid |-> c.rec.id, pid |-> p.rec.pid])

\* PUT /comments.  mod is <<>> when the parameter is absent.
update_comment(d, auth, tid, mod) ==
    LET user == get_current_user(d, auth)
    IN IF user = <<>> THEN Answer(d, 401, NoData)
       ELSE IF read_comment(d, tid) = <<>> THEN Answer(d, 404, NoData)
       ELSE IF mod # <<>>
            THEN LET u == db_update_comment(d, tid,
                              [moderation_status |-> Head(mod)])
                 IN Answer(u.db, 200, [tid |-> Head(u.rec).id,
                                       mod |-> Head(u.rec).moderation_status])
       ELSE Answer(d, 200, [tid |-> tid])

\* A nextComment that returns the first comment of the conversation, as
\* participationInit does.
get_next_comment_first(d, auth, conversation_id) ==
    LET user == get_current_user(d, auth)
        zid == get_zid_by_zinvite(d, conversation_id)
        joined == IF get_participant_by_zid_uid(d, zid, Head(user)) # <<>>
                  THEN d ELSE db_create_participant(d, zid, Head(user)).db
        comments == list_comments_by_conversation_id(joined, zid)
    IN IF user = <<>> THEN Answer(d, 401, NoData)
       ELSE IF zid = 0 THEN Answer(d, 404, NoData)
       ELSE IF comments # <<>>
            THEN Answer(joined, 200, [tid |-> Head(comments).id,
                                      pid |-> Head(comments).user_id])
       ELSE Answer(joined, 200, NoData)

\* GET /nextComment
get_next_comment(d, auth, conversation_id) ==
    LET user == get_current_user(d, auth)
        zid == get_zid_by_zinvite(d, conversation_id)
        joined == IF get_participant_by_zid_uid(d, zid, Head(user)) # <<>>
                  THEN d ELSE db_create_participant(d, zid, Head(user)).db
        Open(c) == /\ get_vote_by_user_comment(joined, Head(user), c.id) = <<>>
                   /\ c.moderation_status >= 0
        open == SelectSeq(list_comments_by_conversation_id(joined, zid), Open)
    IN IF user = <<>> THEN Answer(d, 401, NoData)
       ELSE IF zid = 0 THEN Answer(d, 404, NoData)
       ELSE IF open # <<>>
            THEN Answer(joined, 200, [tid |-> Head(open).id,
                                      pid |-> Head(open).user_id])
       ELSE Answer(joined, 200, NoData)

\* POST /joinWithInvite
join_with_invite(d, auth, conversation_id) ==
    LET user == get_current_user(d, auth)
        zid == get_zid_by_zinvite(d, conversation_id)
        conv == read_conversation(d, zid)
        result == [conversation_id |-> conversation_id,
                   topic |-> Head(conv).title,
                   description |-> Head(conv).description]
    IN IF zid = 0 THEN Answer(d, 404, NoData)
       ELSE IF conv = <<>> THEN Answer(d, 404, NoData)
       ELSE IF user = <<>> THEN Answer(d, 200, [result |-> result, pid |-> <<>>])
       ELSE LET p == get_or_create_participant(d, zid, Head(user))
            IN Answer(p.db, 200, [result |-> result, pid |-> <<p.rec.pid>>])

\* GET /participationInit.  conversation_id is <<>> when the parameter is
\* absent.
participation_init(d, auth, conversation_id) ==
    LET user == get_current_user(d, auth)
        cid == Head(conversation_id)
        zid == get_zid_by_zinvite(d, cid)
        conv == read_conversation(d, zid)
        p == IF user # <<>> THEN get_or_create_participant(d, zid, Head(user))
             ELSE get_or_create_anonymous_participant(d, zid)
        votes == IF user = <<>> THEN <<>>
                 ELSE list_votes_by_user_id(p.db, Head(user))
        comments == list_comments_by_conversation_id(p.db, zid)
    IN IF conversation_id = <<>>
       THEN Answer(d, 200, [user |-> user, ptpt |-> <<>>,
                            nextComment |-> <<>>, votes |-> <<>>])
       ELSE IF zid = 0 THEN Answer(d, 404, NoData)
       ELSE IF conv = <<>> THEN Answer(d, 404, NoData)
       ELSE Answer(p.db, 200,
                [user |-> user,
                 ptpt |-> <<p.rec.pid>>,
                 nextComment |->
                     IF comments = <<>> THEN <<>>
                     ELSE <<[tid |-> Head(comments).id,
                             conversation_id |-> cid,
                             currentPid |-> p.rec.pid]>>,
                 conversation |->
                     [conversation_id |-> cid,
                      is_active |-> ~Head(conv).is_archived,
                      participant_count |-> count_participants(d, zid),
                      comment_count |->
                          count_comments_in_conversation(d, zid)],
                 votes |-> [i \in DOMAIN votes |->
                              [tid |-> votes[i].comment_id,
                               vote |-> votes[i].value,
                               conversation_id |-> cid]]])

\* GET /zinvites/{zid}
get_zinvite(d, auth, zid) ==
    LET user == get_current_user(d, auth)
    IN IF user = <<>> THEN Answer(d, 401, NoData)
       ELSE IF read_conversation(d, zid) = <<>> THEN Answer(d, 404, NoData)
       ELSE LET z == get_or_create_zinvite(d, zid)
            IN Answer(z.db, 200, [zinvite |-> z.rec.zinvite])

\* A regeneration that keeps the codes issued before.
create_zinvite_keeping(d, auth, zid) ==
    LET user == get_current_user(d, auth)
        conv == read_conversation(d, zid)
    IN IF user = <<>> THEN Answer(d, 401, NoData)
       ELSE IF conv = <<>> THEN Answer(d, 404, NoData)
       ELSE IF Head(conv).user_id # Head(user) THEN Answer(d, 403, NoData)
       ELSE LET z == db_create_zinvite(d, zid)
            IN Answer(z.db, 200, [zinvite |-> z.rec.zinvite])

\* POST /zinvites/{zid}
create_zinvite(d, auth, zid) ==
    LET user == get_current_user(d, auth)
        conv == read_conversation(d, zid)
    IN IF user = <<>> THEN Answer(d, 401, NoData)
       ELSE IF conv = <<>> THEN Answer(d, 404, NoData)
       ELSE IF Head(conv).user_id # Head(user) /\ ~is_admin(d, Head(user))
            THEN Answer(d, 403, NoData)
       ELSE LET z == db_create_zinvite(delete_zinvites_by_zid(d, zid), zid)
            IN Answer(z.db, 200, [zinvite |-> z.rec.zinvite])

\* POST /votes, one DatabaseActor call at a time.  A request in progress is
\* a record of the handler's parameters and locals; pc names the next call.
VoteRequest(auth, conversation_id, tid, vote) ==
    [auth |-> auth, conversation_id |-> conversation_id, tid |-> tid,
     vote |-> vote, pc |-> "require_auth", uid |-> 0, zid |-> 0, pid |-> 0,
     existing |-> <<>>, status |-> 0, data |-> NoData]

VoteDone(d, r, status, data) ==
    [db |-> d, req |-> [r EXCEPT !.pc = "done", !.status = status,
                                 !.data = data]]

VoteData(vid, pid, tid, value) ==
    [vid |-> vid, pid |-> pid, tid |-> tid, vote |-> value]

create_vote_step(d, r) ==
    CASE r.pc = "require_auth" ->
            LET user == get_current_user(d, r.auth)
            IN IF user = <<>> THEN VoteDone(d, r, 401, NoData)
               ELSE [db |-> d,
                     req |-> [r EXCEPT !.pc = "get_zid", !.uid = Head(user)]]
      [] r.pc = "get_zid" ->
            IF r.vote \notin VoteValues THEN VoteDone(d, r, 400, NoData)
            ELSE LET zid == get_zid_by_zinvite(d, r.conversation_id)
                 IN IF zid = 0 THEN VoteDone(d, r, 404, NoData)
                    ELSE [db |-> d,
                          req |-> [r EXCEPT !.pc = "participant",
                                            !.zid = zid]]
      [] r.pc = "participant" ->
            LET p == get_or_create_participant(d, r.zid, r.uid)
            IN [db |-> p.db,
                req |-> [r EXCEPT !.pc = "lookup", !.pid = p.rec.pid]]
      [] r.pc = "lookup" ->
            LET existing == get_vote_by_user_comment(d, r.uid, r.tid)
            IN [db |-> d,
                req |-> [r EXCEPT !.existing = existing,
                                  !.pc = IF existing # <<>> THEN "update"
                                         ELSE "create"]]
      [] r.pc = "update" ->
            LET u == update_vote(d, Head(r.existing).id, r.vote)
            IN VoteDone(u.db, r, 200,
                        VoteData(u.rec.id, r.pid, r.tid, u.rec.value))
      [] r.pc = "create" ->
            LET c == db_create_vote(d, r.uid, r.tid, r.vote)
            IN [db |-> c.db,
                req |-> [r EXCEPT !.pc = "increment",
                                  !.data = VoteData(c.rec.id, r.pid, r.tid,
                                                    c.rec.value)]]
      [] r.pc = "increment" ->
            VoteDone(increment_vote_count(d, r.pid), r, 200, r.data)

RECURSIVE create_vote_run(_, _)
create_vote_run(d, r) ==
    IF r.pc = "done" THEN [db |-> d, req |-> r]
    ELSE LET s == create_vote_step(d, r) IN create_vote_run(s.db, s.req)

\* POST /votes, run to completion.
create_vote(d, auth, conversation_id, tid, vote) ==
    LET f == create_vote_run(d, VoteRequest(auth, conversation_id, tid, vote))
    IN Answer(f.db, f.req.status, f.req.data)

\* GET /votes/me
get_my_votes(d, auth, conversation_id) ==
    LET user == get_current_user(d, auth)
        zid == get_zid_by_zinvite(d, conversation_id)
        comments == list_comments_by_conversation_id(d, zid)
        Voted(c) == get_vote_by_user_comment(d, Head(user), c.id) # <<>>
        voted == SelectSeq(comments, Voted)
    IN IF user = <<>> THEN Answer(d, 401, NoData)
       ELSE IF zid = 0 THEN Answer(d, 404, NoData)
       ELSE Answer(d, 200,
                [votes |-> [i \in DOMAIN voted |->
                    [tid |-> voted[i].id,
                     vote |-> Head(get_vote_by_user_comment(
                                     d, Head(user), voted[i].id)).value]]])

PcaStub ==
    [commentProjection |-> <<>>, ptptotProjection |-> <<>>,
     baseCluster |-> <<>>, groupAware |-> FALSE]

Pca2Stub ==
    [pca |-> [commentProjection |-> <<>>, ptptotProjection |-> <<>>,
              baseClusters |-> <<>>]]

\* A projection with an entry for each comment of the conversation.
get_pca_computed(d, auth, conversation_id) ==
    LET zid == get_zid_by_zinvite(d, conversation_id)
        comments == list_comments_by_conversation_id(d, zid)
    IN IF zid = 0 THEN Answer(d, 404, NoData)
       ELSE Answer(d, 200,
                [PcaStub EXCEPT !.commentProjection =
                    [i \in DOMAIN comments |-> <<0, 0>>]])

\* GET /math/pca
get_pca(d, auth, conversation_id) ==
    IF get_zid_by_zinvite(d, conversation_id) = 0
    THEN Answer(d, 404, NoData)
    ELSE Answer(d, 200, PcaStub)

\* A math endpoint that enrols the caller as a participant, as the comment
\* and vote endpoints do.
get_pca2_joining(d, auth, conversation_id) ==
    LET zid == get_zid_by_zinvite(d, conversation_id)
        user == get_current_user(d, auth)
    IN IF zid = 0 THEN Answer(d, 404, NoData)
       ELSE IF user = <<>> THEN Answer(d, 200, Pca2Stub)
       ELSE Answer(get_or_create_participant(d, zid, Head(user)).db, 200,
                   Pca2Stub)

\* GET /math/pca2
get_pca2(d, auth, conversation_id) ==
    IF get_zid_by_zinvite(d, conversation_id) = 0
    THEN Answer(d, 404, NoData)
    ELSE Answer(d, 200, Pca2Stub)

\* The routes registered under /math, and what the router answers for a
\* request under /math: the handler's answer for a registered route, 405 for
\* a registered path with another method, 404 for a path no route has.
MathRoutes == {<<"GET", "/math/pca">>, <<"GET", "/math/pca2">>}

MethodInputs == {"GET", "POST"}

MathPathInputs == {"/math/pca", "/math/pca2", "/math/correlationMatrix"}

math_request(d, method, path, auth, id) ==
    IF <<method, path>> = <<"GET", "/math/pca">> THEN get_pca(d, auth, id)
    ELSE IF <<method, path>> = <<"GET", "/math/pca2">>
         THEN get_pca2(d, auth, id)
    ELSE IF \E r \in MathRoutes : r[2] = path
         THEN Answer(d, 405, [detail |-> "Method Not Allowed"])
    ELSE Answer(d, 404, [detail |-> "Not Found"])

(* ------------------------------ actions -------------------------------- *)

\* resp is the answer to the last request: the handler, the HTTP status and
\* the payload; for POST /votes also what its lookup of the existing vote
\* found (the handler's local `existing`).
NoResp == [op |-> "none", status |-> 0, data |-> NoData, existing |-> <<>>]

Reply(op, a) ==
    [op |-> op, status |-> a.status, data |-> a.data, existing |-> <<>>]

VoteReply(r) ==
    [op |-> "create_vote", status |-> r.status, data |-> r.data,
     existing |-> r.existing]

\* The last value each (user, comment) pair was answered 200 for by POST /votes.
Ack(a, uid, tid, value) ==
    {x \in a : ~(x.uid = uid /\ x.tid = tid)}
        \cup {[uid |-> uid, tid |-> tid, value |-> value]}

Idle == inflight = <<>>

Init ==
    /\ db = EmptyDb
    /\ resp = NoResp
    /\ acked = {}
    /\ inflight = <<>>
    /\ start = EmptyDb

RegisterUser ==
    /\ Idle
    /\ \E email \in EmailInputs(db), password \in PasswordInputs :
          \E a \in {register_user(db, email, password)} :
             /\ Len(a.db.users) <= MaxUsers
             /\ \A u \in ToSet(a.db.users) : u.id <= MaxUsers
             /\ db' = a.db
             /\ resp' = Reply("register_user", a)
    /\ UNCHANGED <<acked, inflight, start>>

CreateConversation ==
    /\ Idle
    /\ \E auth \in AuthInputs, topic \in TopicInputs, is_active \in {TRUE} :
          \E a \in {create_conversation(db, auth, topic, <<>>, is_active)} :
             /\ Len(a.db.conversations) <= MaxConvs
             /\ db' = a.db
             /\ resp' = Reply("create_conversation", a)
    /\ UNCHANGED <<acked, inflight, start>>

CreateComment ==
    /\ Idle
    /\ \E auth \in AuthInputs, cid \in ConvIdInputs, txt \in TxtInputs :
          \E a \in {create_comment(db, auth, cid, txt)} :
             /\ Len(a.db.comments) <= MaxComments
             /\ db' = a.db
             /\ resp' = Reply("create_comment", a)
    /\ UNCHANGED <<acked, inflight, start>>

CreateVote ==
    /\ Idle
    /\ \E auth \in AuthInputs, cid \in ConvIdInputs, tid \in TidInputs,
          vote \in VoteInputs :
          \E f \in {create_vote_run(db, VoteRequest(auth, cid, tid, vote))} :
             /\ Len(f.db.votes) <= MaxVotes
             /\ db' = f.db
             /\ resp' = VoteReply(f.req)
             /\ acked' = IF f.req.status = 200
                         THEN Ack(acked, f.req.uid, tid, vote) ELSE acked
    /\ UNCHANGED <<inflight, start>>

GetMyVotes ==
    /\ Idle
    /\ \E auth \in AuthInputs, cid \in ConvIdInputs :
          \E a \in {get_my_votes(db, auth, cid)} :
             /\ db' = a.db
             /\ resp' = Reply("get_my_votes", a)
    /\ UNCHANGED <<acked, inflight, start>>

GetPca ==
    /\ Idle
    /\ \E auth \in AuthInputs, cid \in ConvIdInputs :
          \E a \in {get_pca(db, auth, cid)} :
             /\ db' = a.db
             /\ resp' = Reply("get_pca", a)
    /\ UNCHANGED <<acked, inflight, start>>

GetPca2 ==
    /\ Idle
    /\ \E auth \in AuthInputs, cid \in ConvIdInputs :
          \E a \in {get_pca2(db, auth, cid)} :
             /\ db' = a.db
             /\ resp' = Reply("get_pca2", a)
    /\ UNCHANGED <<acked, inflight, start>>

\* A request under /math that no route serves.
MathUnrouted ==
    /\ Idle
    /\ \E method \in MethodInputs, path \in MathPathInputs,
          auth \in AuthInputs, id \in ConvIdInputs :
          /\ <<method, path>> \notin MathRoutes
          /\ \E a \in {math_request(db, method, path, auth, id)} :
                /\ db' = a.db
                /\ resp' = Reply("unrouted", a)
    /\ UNCHANGED <<acked, inflight, start>>

Next ==
    \/ RegisterUser
    \/ CreateConversation
    \/ CreateComment
    \/ CreateVote
    \/ GetMyVotes
    \/ GetPca
    \/ GetPca2
    \/ MathUnrouted

Spec == Init /\ [][Next]_vars

(* ----------------------- accounts and ownership ------------------------ *)
(* The account endpoints and the owner-only conversation endpoints, served  *)
(* one request after another: registration, login, deregistration, password *)
(* change, GET and PUT /users, and creating, closing and reopening a        *)
(* conversation.                                                            *)

Login ==
    /\ Idle
    /\ \E email \in EmailInputs(db), password \in AccountPasswords :
          \E a \in {login(db, email, password)} :
             /\ db' = a.db
             /\ resp' = Reply("login", a)
    /\ UNCHANGED <<acked, inflight, start>>

Deregister ==
    /\ Idle
    /\ \E auth \in AuthInputs \cup AnonInputs, request \in DeregisterInputs :
          \E a \in {deregister(db, auth, request)} :
             /\ db' = a.db
             /\ resp' = Reply("deregister", a)
    /\ UNCHANGED <<acked, inflight, start>>

ChangePassword ==
    /\ Idle
    /\ \E auth \in AuthInputs \cup AnonInputs,
          current_password \in AccountPasswords,
          new_password \in AccountPasswords :
          \E a \in {change_password(db, auth, current_password,
                                     new_password)} :
             /\ db' = a.db
             /\ resp' = Reply("change_password", a)
    /\ UNCHANGED <<acked, inflight, start>>

GetUser ==
    /\ Idle
    /\ \E auth \in AuthInputs \cup AnonInputs :
          \E a \in {get_user(db, auth)} :
             /\ db' = a.db
             /\ resp' = Reply("get_user", a)
    /\ UNCHANGED <<acked, inflight, start>>

UpdateUser ==
    /\ Idle
    /\ \E auth \in AuthInputs \cup AnonInputs,
          email \in {<<>>} \cup {<<e>> : e \in EmailInputs(db)} :
          \E a \in {update_user(db, auth, email)} :
             /\ db' = a.db
             /\ resp' = Reply("update_user", a)
    /\ UNCHANGED <<acked, inflight, start>>

CloseConversation ==
    /\ Idle
    /\ \E auth \in AuthInputs \cup AnonInputs, cid \in ConvIdInputs :
          \E a \in {close_conversation(db, auth, cid)} :
             /\ db' = a.db
             /\ resp' = Reply("close_conversation", a)
    /\ UNCHANGED <<acked, inflight, start>>

ReopenConversation ==
    /\ Idle
    /\ \E auth \in AuthInputs \cup AnonInputs, cid \in ConvIdInputs :
          \E a \in {reopen_conversation(db, auth, cid)} :
             /\ db' = a.db
             /\ resp' = Reply("reopen_conversation", a)
    /\ UNCHANGED <<acked, inflight, start>>

GetConversations ==
    /\ Idle
    /\ \E auth \in AuthInputs \cup AnonInputs,
          cid \in {<<>>} \cup {<<c>> : c \in ConvIdInputs} :
          \E a \in {get_conversations(db, auth, cid)} :
             /\ db' = a.db
             /\ resp' = Reply("get_conversations", a)
    /\ UNCHANGED <<acked, inflight, start>>

GetConversationStats ==
    /\ Idle
    /\ \E auth \in AuthInputs \cup AnonInputs, cid \in ConvIdInputs :
          \E a \in {get_conversation_stats(db, auth, cid)} :
             /\ db' = a.db
             /\ resp' = Reply("get_conversation_stats", a)
    /\ UNCHANGED <<acked, inflight, start>>

UpdateConversation ==
    /\ Idle
    /\ \E auth \in AuthInputs \cup AnonInputs, cid \in ConvIdInputs,
          topic \in TopicUpdates, description \in DescriptionUpdates,
          is_active \in ActiveUpdates :
          \E a \in {update_conversation(db, auth, cid, topic, description,
                                         is_active)} :
             /\ db' = a.db
             /\ resp' = Reply("update_conversation", a)
    /\ UNCHANGED <<acked, inflight, start>>

NextAccounts ==
    \/ RegisterUser
    \/ Login
    \/ Deregister
    \/ ChangePassword
    \/ GetUser
    \/ UpdateUser
    \/ CreateConversation
    \/ CloseConversation
    \/ ReopenConversation
    \/ GetConversations
    \/ GetConversationStats

SpecAccounts == Init /\ [][NextAccounts]_vars

(* ------------------- a conversation and its invite -------------------- *)
(* Creating, updating, closing, reopening and listing a conversation and    *)
(* reading and regenerating its invite code, one request after another, in  *)
(* a store where two users have registered.                                 *)

TwoUsersDb ==
    register_user(register_user(EmptyDb, Emails[1], "pw").db,
                  Emails[2], "pw").db

InitConversations ==
    /\ db = TwoUsersDb
    /\ resp = NoResp
    /\ acked = {}
    /\ inflight = <<>>
    /\ start = TwoUsersDb

GetZinvite ==
    /\ Idle
    /\ \E auth \in AuthInputs, zid \in ZidInputs :
          \E a \in {get_zinvite(db, auth, zid)} :
             /\ a.db.zinvite_seq <= MaxInvites
             /\ db' = a.db
             /\ resp' = Reply("get_zinvite", a)
    /\ UNCHANGED <<acked, inflight, start>>

CreateZinvite ==
    /\ Idle
    /\ \E auth \in AuthInputs, zid \in ZidInputs :
          \E a \in {create_zinvite(db, auth, zid)} :
             /\ a.db.zinvite_seq <= MaxInvites
             /\ db' = a.db
             /\ resp' = Reply("create_zinvite", a)
    /\ UNCHANGED <<acked, inflight, start>>

NextConversations ==
    \/ CreateConversation
    \/ UpdateConversation
    \/ CloseConversation
    \/ ReopenConversation
    \/ GetConversations
    \/ GetZinvite
    \/ CreateZinvite

SpecConversations == InitConversations /\ [][NextConversations]_vars

(* ------------------ POST /votes requests in parallel ------------------- *)
(* Two POST /votes requests served at once (several workers on one store):  *)
(* each DatabaseActor call of create_vote is one step, and the steps of the *)
(* two requests interleave freely.  The run starts from a store that a      *)
(* sequence of requests has filled: two users, a conversation of each, a    *)
(* comment in the first conversation, and with or without a vote on it.     *)

Cookie(uid) == [token |-> TRUE, uid2 |-> uid]

FilledDb ==
    LET d1 == register_user(EmptyDb, Emails[1], "pw").db
        d2 == register_user(d1, Emails[2], "pw").db
        d3 == create_conversation(d2, Cookie(1), <<>>, <<>>, TRUE).db
        d4 == create_conversation(d3, Cookie(2), <<>>, <<>>, TRUE).db
    IN create_comment(d4, Cookie(1), 1, "text").db

VotedDb == create_vote(FilledDb, Cookie(2), 1, 1, 1).db

ParallelStarts == {FilledDb, VotedDb}

ParallelRequests ==
    {VoteRequest(Cookie(u), cid, tid, vote) :
        u \in {1, 2}, cid \in {1, 2}, tid \in {1, 2}, vote \in VoteValues}

AckedIn(d) ==
    {[uid |-> v.user_id, tid |-> v.comment_id, value |-> v.value] :
        v \in ToSet(d.votes)}

InitParallel ==
    /\ db \in ParallelStarts
    /\ start = db
    /\ resp = NoResp
    /\ acked = AckedIn(db)
    /\ inflight \in {<<a, b>> : a \in ParallelRequests, b \in ParallelRequests}

Serve(i, pc) ==
    /\ inflight[i].pc = pc
    /\ \E s \in {create_vote_step(db, inflight[i])} :
          /\ db' = s.db
          /\ inflight' = [inflight EXCEPT ![i] = s.req]
          /\ resp' = IF s.req.pc = "done" THEN VoteReply(s.req) ELSE resp
          /\ acked' = IF s.req.pc = "done" /\ s.req.status = 200
                      THEN Ack(acked, s.req.uid, s.req.tid, s.req.vote)
                      ELSE acked
    /\ UNCHANGED start

VoteRequireAuth == \E i \in DOMAIN inflight : Serve(i, "require_auth")

VoteGetZid == \E i \in DOMAIN inflight : Serve(i, "get_zid")

VoteParticipant == \E i \in DOMAIN inflight : Serve(i, "participant")

VoteLookup == \E i \in DOMAIN inflight : Serve(i, "lookup")

VoteUpdate == \E i \in DOMAIN inflight : Serve(i, "update")

VoteCreate == \E i \in DOMAIN inflight : Serve(i, "create")

VoteIncrement == \E i \in DOMAIN inflight : Serve(i, "increment")

NextParallel ==
    \/ VoteRequireAuth
    \/ VoteGetZid
    \/ VoteParticipant
    \/ VoteLookup
    \/ VoteUpdate
    \/ VoteCreate
    \/ VoteIncrement

SpecParallel == InitParallel /\ [][NextParallel]_vars

(* ---------------------------- participation --------------------------- *)
(* Commenting, moderating, voting and joining, one request after another,   *)
(* in a store a sequence of requests has filled: two users, a conversation  *)
(* of each, and a comment of each user in the first conversation.           *)

ThreadDb == create_comment(FilledDb, Cookie(2), 1, "text").db

InitParticipation ==
    /\ db = ThreadDb
    /\ resp = NoResp
    /\ acked = {}
    /\ inflight = <<>>
    /\ start = ThreadDb

PostComment ==
    /\ Idle
    /\ \E auth \in AuthInputs, cid \in ConvIdInputs, txt \in TxtInputs :
          \E a \in {create_comment(db, auth, cid, txt)} :
             /\ Len(a.db.comments) <= MaxThread
             /\ db' = a.db
             /\ resp' = Reply("create_comment", a)
    /\ UNCHANGED <<acked, inflight, start>>

UpdateComment ==
    /\ Idle
    /\ \E auth \in AuthInputs, tid \in TidInputs, mod \in ModInputs :
          \E a \in {update_comment(db, auth, tid, mod)} :
             /\ db' = a.db
             /\ resp' = Reply("update_comment", a)
    /\ UNCHANGED <<acked, inflight, start>>

CastVote ==
    /\ Idle
    /\ \E auth \in AuthInputs, cid \in ConvIdInputs, tid \in TidInputs,
          vote \in VoteInputs :
          \E f \in {create_vote_run(db, VoteRequest(auth, cid, tid, vote))} :
             /\ Len(f.db.votes) <= MaxCast
             /\ db' = f.db
             /\ resp' = VoteReply(f.req)
             /\ acked' = IF f.req.status = 200
                         THEN Ack(acked, f.req.uid, tid, vote) ELSE acked
    /\ UNCHANGED <<inflight, start>>

GetNextComment ==
    /\ Idle
    /\ \E auth \in AuthInputs, cid \in ConvIdInputs :
          \E a \in {get_next_comment(db, auth, cid)} :
             /\ db' = a.db
             /\ resp' = Reply("get_next_comment", a)
    /\ UNCHANGED <<acked, inflight, start>>

JoinConversation ==
    /\ Idle
    /\ \E auth \in AuthInputs, cid \in ConvIdInputs :
          \E a \in {join_conversation(db, auth, cid)} :
             /\ db' = a.db
             /\ resp' = Reply("join_conversation", a)
    /\ UNCHANGED <<acked, inflight, start>>

JoinWithInvite ==
    /\ Idle
    /\ \E auth \in AuthInputs, cid \in ConvIdInputs :
          \E a \in {join_with_invite(db, auth, cid)} :
             /\ db' = a.db
             /\ resp' = Reply("join_with_invite", a)
    /\ UNCHANGED <<acked, inflight, start>>

ParticipationInit ==
    /\ Idle
    /\ \E auth \in AuthInputs,
          cid \in {<<>>} \cup {<<c>> : c \in ConvIdInputs} :
          \E a \in {participation_init(db, auth, cid)} :
             /\ Cardinality({i \in DOMAIN a.db.participants :
                                a.db.participants[i].uid = 0}) <= MaxAnonymous
             /\ db' = a.db
             /\ resp' = Reply("participation_init", a)
    /\ UNCHANGED <<acked, inflight, start>>

NextParticipation ==
    \/ PostComment
    \/ UpdateComment
    \/ CastVote
    \/ GetNextComment
    \/ JoinConversation
    \/ JoinWithInvite
    \/ ParticipationInit

SpecParticipation == InitParticipation /\ [][NextParticipation]_vars

(* ------------------------------- claims -------------------------------- *)

VotesOf(d, uid, tid) ==
    {i \in DOMAIN d.votes :
        d.votes[i].user_id = uid /\ d.votes[i].comment_id = tid}

\* C1: after any sequence of POST /votes requests, each run to completion
\* before the next starts, the store holds at most one vote record for each
\* (user, comment) pair.
C1_OneVotePerPair ==
    \A i, j \in DOMAIN db.votes :
        (/\ db.votes[i].user_id = db.votes[j].user_id
         /\ db.votes[i].comment_id = db.votes[j].comment_id) => i = j

\* A user has just voted again on a comment they had voted on, while another
\* pair holds a vote too.
C1_Witness ==
    /\ resp.op = "create_vote"
    /\ resp.status = 200
    /\ resp.existing # <<>>
    /\ Len(db.votes) = 2
    /\ Cardinality(VotesOf(db, Head(resp.existing).user_id, resp.data.tid)) = 1

\* What the claims read off a request and its answer.
Authenticated(d, auth) == get_current_user(d, auth) # <<>>

UidOf(d, auth) == Head(get_current_user(d, auth))

Resolves(d, cid) == \E z \in ToSet(d.zinvites) : z.zinvite = cid

ResolvesTo(d, cid, zid) ==
    \E z \in ToSet(d.zinvites) : z.zinvite = cid /\ z.zid = zid

CommentExists(d, tid) == \E c \in ToSet(d.comments) : c.id = tid

\* No participant's vote counter differs between d and e; a participant only
\* e has, has counted no vote.
SameCounters(d, e) ==
    /\ \A p \in ToSet(d.participants) : p \in ToSet(e.participants)
    /\ \A p \in ToSet(e.participants) :
          p \notin ToSet(d.participants) => p.vote_count = 0

\* e is d with the vote record vid set to value and nothing else touched.
OverwrittenInPlace(d, e, vid, value) ==
    /\ Len(e.votes) = Len(d.votes)
    /\ \A i \in DOMAIN d.votes :
          e.votes[i] = IF d.votes[i].id = vid
                       THEN [d.votes[i] EXCEPT !.value = value]
                       ELSE d.votes[i]

\* C2: last vote wins.  A POST /votes with value v by a user who has a vote on
\* the comment overwrites that record in place (same vote id, no new record,
\* stored value v), and GET /votes/me reads back, for every pair, the value
\* of the most recent acknowledged vote.
C2_LastVoteWins ==
    /\ \A auth \in AuthInputs, cid \in ConvIdInputs, tid \in TidInputs,
          vote \in {-1, 0, 1} :
          (/\ Authenticated(db, auth)
           /\ Resolves(db, cid)
           /\ VotesOf(db, UidOf(db, auth), tid) # {}) =>
             LET a == create_vote(db, auth, cid, tid, vote)
             IN /\ a.status = 200
                /\ a.data.vote = vote
                /\ \E i \in VotesOf(db, UidOf(db, auth), tid) :
                      /\ a.data.vid = db.votes[i].id
                      /\ OverwrittenInPlace(db, a.db, db.votes[i].id, vote)
    /\ \A x \in acked, c \in ToSet(db.comments) :
          c.id = x.tid =>
             \A auth \in AuthInputs, cid \in ConvIdInputs :
                (/\ get_current_user(db, auth) = <<x.uid>>
                 /\ ResolvesTo(db, cid, c.conversation_id)) =>
                   LET a == get_my_votes(db, auth, cid)
                       mine == {i \in DOMAIN a.data.votes :
                                   a.data.votes[i].tid = x.tid}
                   IN /\ a.status = 200
                      /\ Cardinality(mine) = 1
                      /\ \A i \in mine : a.data.votes[i].vote = x.value

\* A vote on an existing comment has just been overwritten with another value.
C2_Witness ==
    /\ resp.op = "create_vote"
    /\ resp.status = 200
    /\ resp.existing # <<>>
    /\ Head(resp.existing).value # resp.data.vote
    /\ CommentExists(db, resp.data.tid)

\* C3: submitting the (user, comment, value) vote that is already stored
\* leaves the stored value, the number of vote records and every vote counter
\* as they were.
C3_SameVoteTwice ==
    \A auth \in AuthInputs, cid \in ConvIdInputs, tid \in TidInputs,
       vote \in {-1, 0, 1} :
       (/\ Authenticated(db, auth)
        /\ Resolves(db, cid)
        /\ \E i \in VotesOf(db, UidOf(db, auth), tid) :
              db.votes[i].value = vote) =>
          LET a == create_vote(db, auth, cid, tid, vote)
          IN /\ a.status = 200
             /\ Len(a.db.votes) = Len(db.votes)
             /\ \A i \in VotesOf(a.db, UidOf(db, auth), tid) :
                   a.db.votes[i].value = vote
             /\ VotesOf(a.db, UidOf(db, auth), tid) # {}
             /\ SameCounters(db, a.db)

\* The vote just acknowledged repeated the value the pair already had.
C3_Witness ==
    /\ resp.op = "create_vote"
    /\ resp.status = 200
    /\ resp.existing # <<>>
    /\ Head(resp.existing).value = resp.data.vote
    /\ \E p \in ToSet(db.participants) : p.vote_count > 0

\* C4: POST /votes with a valid value and a conversation_id that resolves to
\* no conversation answers 404 and changes nothing stored.
C4_UnknownConversation ==
    \A auth \in AuthInputs, cid \in ConvIdInputs, tid \in TidInputs,
       vote \in {-1, 0, 1} :
       (Authenticated(db, auth) /\ ~Resolves(db, cid)) =>
          LET a == create_vote(db, auth, cid, tid, vote)
          IN a.status = 404 /\ a.db = db

\* A vote was just refused with 404 although a conversation with a comment
\* exists.
C4_Witness ==
    /\ resp.op = "create_vote"
    /\ resp.status = 404
    /\ db.conversations # <<>>
    /\ db.comments # <<>>

\* C5: POST /votes for a tid that is no comment answers 404, creates no vote
\* record and increments no vote counter.
C5_UnknownComment ==
    \A auth \in AuthInputs, cid \in ConvIdInputs, tid \in TidInputs,
       vote \in {-1, 0, 1} :
       (Authenticated(db, auth) /\ ~CommentExists(db, tid)) =>
          LET a == create_vote(db, auth, cid, tid, vote)
          IN /\ a.status = 404
             /\ a.db.votes = db.votes
             /\ SameCounters(db, a.db)

\* C6: every stored vote value is -1, 0 or 1, and POST /votes with any other
\* value is answered 400 and changes nothing stored, whether or not the pair
\* has a vote.
C6_VoteValues ==
    /\ \A v \in ToSet(db.votes) : v.value \in {-1, 0, 1}
    /\ \A auth \in AuthInputs, cid \in ConvIdInputs, tid \in TidInputs,
          vote \in VoteInputs \ {-1, 0, 1} :
          LET a == create_vote(db, auth, cid, tid, vote)
          IN /\ a.db = db
             /\ Authenticated(db, auth) => a.status = 400

\* A vote outside {-1, 0, 1} was just refused while one pair has a vote and
\* another has none.
C6_Witness ==
    /\ resp.op = "create_vote"
    /\ resp.status = 400
    /\ Len(db.votes) = 1

C11_MathReadOnly ==
    \A auth \in AuthInputs, cid \in ConvIdInputs :
       /\ get_pca(db, auth, cid).status \in {200, 404}
       /\ get_pca2(db, auth, cid).status \in {200, 404}
       /\ \A a \in {get_pca(db, auth, cid), get_pca2(db, auth, cid)} :
             /\ a.db.votes = db.votes
             /\ a.db.participants = db.participants
             /\ a.db.comments = db.comments
             /\ a.db.conversations = db.conversations
             /\ a.db.zinvites = db.zinvites

\* GET /math/pca2 has just answered while a user who can be authenticated is
\* no participant of the conversation that holds a vote.
C11_Witness ==
    /\ resp.op = "get_pca2"
    /\ resp.status = 200
    /\ db.votes # <<>>
    /\ Len(db.users) = 2
    /\ Len(db.participants) = 1

\* C12: for a conversation without votes, GET /math/pca2 answers 200 with an
\* empty projection and a cluster list of exactly one cluster, which has no
\* member.
C12_SingleEmptyCluster ==
    \A c \in ToSet(db.conversations), auth \in AuthInputs,
       cid \in ConvIdInputs :
       (/\ ResolvesTo(db, cid, c.id)
        /\ db.votes = <<>>) =>
          LET a == get_pca2(db, auth, cid)
          IN /\ a.status = 200
             /\ a.data.pca.commentProjection = <<>>
             /\ a.data.pca.ptptotProjection = <<>>
             /\ Len(a.data.pca.baseClusters) = 1
             /\ \A i \in DOMAIN a.data.pca.baseClusters :
                   a.data.pca.baseClusters[i] = <<>>

\* C13: once a conversation exists to report on, GET /math/correlationMatrix
\* with a report_id is answered 200 with a body that has a data, correlation
\* or matrix key.
C13_CorrelationMatrix ==
    \A auth \in AuthInputs, report_id \in ConvIdInputs :
       db.conversations # <<>> =>
       LET a == math_request(db, "GET", "/math/correlationMatrix", auth,
                             report_id)
       IN /\ a.status = 200
          /\ DOMAIN a.data \cap {"data", "correlation", "matrix"} # {}

C15_DuplicateEmail ==
    \A email \in EmailInputs(db), password \in AccountPasswords :
       (\E u \in ToSet(db.users) : u.email = email) =>
          LET a == register_user(db, email, password)
          IN /\ a.status \in {400, 409}
             /\ Len(a.db.users) = Len(db.users)
             /\ \A i \in DOMAIN db.users :
                   a.db.users[i].auth_token = db.users[i].auth_token
             /\ a.db = db

\* A registration has just been refused with 409 while a second account
\* could still be created.
C15_Witness ==
    /\ resp.op = "register_user"
    /\ resp.status = 409
    /\ Len(db.users) = 1

\* C16: a request without a Bearer header and without a token2 cookie, with
\* or without a uid2 cookie, is answered 401 by every endpoint that depends
\* on require_auth, and changes nothing stored.
C16_RequireAuth ==
    \A auth \in AnonInputs :
       \A a \in
          {deregister(db, auth, request) : request \in DeregisterInputs}
          \cup {change_password(db, auth, cur, new) :
                   cur \in AccountPasswords, new \in AccountPasswords}
          \cup {get_user(db, auth)}
          \cup {update_user(db, auth, email) :
                   email \in {<<>>} \cup {<<e>> : e \in EmailInputs(db)}}
          \cup {create_conversation(db, auth, topic, <<>>, is_active) :
                   topic \in {<<>>, <<"topic">>}, is_active \in BOOLEAN}
          \cup {update_conversation(db, auth, cid, topic, <<>>, is_active) :
                   cid \in ConvIdInputs, topic \in {<<>>, <<"topic">>},
                   is_active \in {<<>>, <<TRUE>>, <<FALSE>>}}
          \cup {close_conversation(db, auth, cid) : cid \in ConvIdInputs}
          \cup {reopen_conversation(db, auth, cid) : cid \in ConvIdInputs}
          \cup {get_participants(db, auth, cid) : cid \in ConvIdInputs}
          \cup {join_conversation(db, auth, cid) : cid \in ConvIdInputs}
          \cup {create_comment(db, auth, cid, txt) :
                   cid \in ConvIdInputs, txt \in TxtInputs}
          \cup {update_comment(db, auth, tid, mod) :
                   tid \in TidInputs, mod \in {<<>>, <<-1>>, <<1>>}}
          \cup {get_next_comment(db, auth, cid) : cid \in ConvIdInputs}
          \cup {create_vote(db, auth, cid, tid, vote) :
                   cid \in ConvIdInputs, tid \in TidInputs,
                   vote \in VoteInputs}
          \cup {get_my_votes(db, auth, cid) : cid \in ConvIdInputs}
          \cup {get_zinvite(db, auth, zid) : zid \in ConvIdInputs}
          \cup {create_zinvite(db, auth, zid) : zid \in ConvIdInputs} :
          a.status = 401 /\ a.db = db

\* A request without a token has just been refused although user 1, whom any
\* token is resolved to, exists, and so does a conversation.
C16_Witness ==
    /\ resp.status = 401
    /\ resp.data = NoData
    /\ resp.op \in {"deregister", "change_password", "get_user",
                     "update_user", "create_conversation",
                     "close_conversation", "reopen_conversation"}
    /\ \E u \in ToSet(db.users) : u.id = 1
    /\ db.conversations # <<>>

\* e is d with the credential of user uid set to credential.
CredentialReplaced(d, e, uid, credential) ==
    e = [d EXCEPT !.users =
            [i \in DOMAIN @ |->
                IF @[i].id = uid
                THEN [@[i] EXCEPT !.auth_token = credential] ELSE @[i]]]

\* C17: POST /auth/password by an authenticated user stores the hash of
\* new_password as that user's credential exactly when the hash of
\* current_password is the stored credential.  With a wrong current password
\* it answers 401 and stores nothing: a login with the user's email that
\* succeeded before still succeeds, and a login with the new password fails
\* unless that was already the password of the account the email identifies.
C17_ChangePassword ==
    \A auth \in AuthInputs, cur \in AccountPasswords,
       new \in AccountPasswords :
       Authenticated(db, auth) =>
          LET me == Head(read_user(db, UidOf(db, auth)))
              a == change_password(db, auth, cur, new)
          IN IF me.auth_token = sha256(cur)
             THEN /\ a.status = 200
                  /\ CredentialReplaced(db, a.db, me.id, sha256(new))
             ELSE /\ a.status = 401
                  /\ a.db = db
                  /\ \A u \in ToSet(a.db.users) :
                        u.id = me.id => u.auth_token = me.auth_token
                  /\ \A old \in AccountPasswords :
                        login(db, me.email, old).status = 200 =>
                           login(a.db, me.email, old).status = 200
                  /\ Head(read_user_by_email(db, me.email)).auth_token
                        # sha256(new) =>
                           login(a.db, me.email, new).status # 200

\* A password change has just been refused for a wrong current password,
\* after an earlier change had succeeded.
C17_Witness ==
    /\ resp.op = "change_password"
    /\ resp.status = 401
    /\ resp.data = [detail |-> "Invalid current password"]
    /\ \E u \in ToSet(db.users) : u.auth_token = sha256("pw2")

\* C18: POST /auth/deregister by an authenticated user with a non-empty
\* password deletes that user's account, and nothing else, exactly when the
\* hash of the password is the stored credential; with a wrong password it
\* answers 401 and deletes nothing.
C18_Deregister ==
    \A auth \in AuthInputs, password \in AccountPasswords \ {""} :
       Authenticated(db, auth) =>
          LET me == Head(read_user(db, UidOf(db, auth)))
              a == deregister(db, auth, <<password>>)
          IN IF me.auth_token = sha256(password)
             THEN /\ a.status = 200
                  /\ ToSet(a.db.users) = ToSet(db.users) \ {me}
                  /\ Len(a.db.users) = Len(db.users) - 1
                  /\ a.db = [db EXCEPT !.users = a.db.users]
             ELSE /\ a.status = 401
                  /\ me \in ToSet(a.db.users)
                  /\ a.db = db

\* A deregistration has just been refused for a wrong password while two
\* accounts exist.
C18_Witness ==
    /\ resp.op = "deregister"
    /\ resp.status = 401
    /\ resp.data = [detail |-> "Invalid password"]
    /\ Len(db.users) = 2

\* C19: POST /auth/deregister by an authenticated user with the password ""
\* is answered 400, 401 or 422.
C19_EmptyPassword ==
    \A auth \in AuthInputs :
       Authenticated(db, auth) =>
          deregister(db, auth, <<"">>).status \in {400, 401, 422}

\* C20: POST /conversation/close and POST /conversation/reopen by an
\* authenticated user who is neither the owner of the conversation nor an
\* admin are answered 403 and leave the archived flag, and everything else
\* stored, as it was.
C20_OwnerOnly ==
    \A auth \in AuthInputs, cid \in ConvIdInputs,
       c \in ToSet(db.conversations) :
       (/\ Authenticated(db, auth)
        /\ ResolvesTo(db, cid, c.id)
        /\ c.user_id # UidOf(db, auth)
        /\ ~Head(read_user(db, UidOf(db, auth))).is_admin) =>
          \A a \in {close_conversation(db, auth, cid),
                     reopen_conversation(db, auth, cid)} :
             /\ a.status = 403
             /\ \A e \in ToSet(a.db.conversations) :
                   e.id = c.id => e.is_archived = c.is_archived
             /\ a.db = db

\* A user who is not the owner has just been refused the reopening of a
\* conversation its owner had closed.
C20_Witness ==
    /\ resp.op = "reopen_conversation"
    /\ resp.status = 403
    /\ \E c \in ToSet(db.conversations) :
          /\ c.is_archived
          /\ \E u \in ToSet(db.users) : u.id = c.user_id

\* What GET /conversations?conversation_id=cid reads as is_active from d.
ReadsActive(d, auth, cid) ==
    LET a == get_conversations(d, auth, <<cid>>)
    IN a.status = 200 /\ Len(a.data) = 1 /\ a.data[1].is_active

ReadsClosed(d, auth, cid) ==
    LET a == get_conversations(d, auth, <<cid>>)
    IN a.status = 200 /\ Len(a.data) = 1 /\ ~a.data[1].is_active

\* C21: a close by the owner is answered 200 and the conversation then reads
\* is_active = false, a reopen is answered 200 and it reads is_active = true,
\* whatever it read before; closing a closed conversation and reopening an
\* open one change nothing; so after any sequence of closes and reopens
\* is_active is what the last one set.
C21_CloseReopen ==
    \A auth \in AuthInputs, cid \in ConvIdInputs,
       c \in ToSet(db.conversations) :
       (/\ Authenticated(db, auth)
        /\ ResolvesTo(db, cid, c.id)
        /\ c.user_id = UidOf(db, auth)) =>
          LET closed == close_conversation(db, auth, cid)
              reopened == reopen_conversation(db, auth, cid)
              Only(archived) ==
                  [db EXCEPT !.conversations =
                      [i \in DOMAIN @ |->
                          IF @[i].id = c.id
                          THEN [@[i] EXCEPT !.is_archived = archived]
                          ELSE @[i]]]
          IN /\ closed.status = 200
             /\ reopened.status = 200
             /\ closed.db = Only(TRUE)
             /\ reopened.db = Only(FALSE)
             /\ ReadsClosed(closed.db, auth, cid)
             /\ ReadsActive(reopened.db, auth, cid)
             /\ c.is_archived => closed.db = db
             /\ ~c.is_archived => reopened.db = db
             /\ close_conversation(closed.db, auth, cid).status = 200
             /\ close_conversation(closed.db, auth, cid).db = closed.db
             /\ reopen_conversation(reopened.db, auth, cid).status = 200
             /\ reopen_conversation(reopened.db, auth, cid).db = reopened.db
             /\ reopen_conversation(closed.db, auth, cid).db = reopened.db
             /\ close_conversation(reopened.db, auth, cid).db = closed.db

\* The owner has just closed the conversation while a second account, which
\* does not own it, exists.
C21_Witness ==
    /\ resp.op = "close_conversation"
    /\ resp.status = 200
    /\ Len(db.users) = 2
    /\ \E c \in ToSet(db.conversations) : c.is_archived

\* C22: GET /conversationStats for an existing conversation answers a
\* request that is not authenticated with 401 or 403, and a request of an
\* authenticated user who does not own the conversation with 403.
C22_StatsPermission ==
    \A auth \in AuthInputs \cup AnonInputs, cid \in ConvIdInputs,
       c \in ToSet(db.conversations) :
       ResolvesTo(db, cid, c.id) =>
          LET a == get_conversation_stats(db, auth, cid)
          IN /\ ~Authenticated(db, auth) => a.status \in {401, 403}
             /\ (/\ Authenticated(db, auth)
                 /\ c.user_id # UidOf(db, auth)) => a.status = 403

\* A comment user uid can still be shown: not voted on by uid, not rejected.
Eligible(d, uid, c) ==
    /\ VotesOf(d, uid, c.id) = {}
    /\ c.moderation_status >= 0

\* GET /nextComment answers 200 for the authenticated user and conversation
\* zid: with a comment of zid that is eligible, or with no comment exactly
\* when zid has no eligible comment; and once the user has voted on the
\* comment returned, the next answer is another comment or none.
NextCommentAnswers(d) ==
    \A auth \in AuthInputs, cid \in ConvIdInputs,
       conv \in ToSet(d.conversations) :
       (Authenticated(d, auth) /\ ResolvesTo(d, cid, conv.id)) =>
          LET a == get_next_comment(d, auth, cid)
              uid == UidOf(d, auth)
              listed == {c \in ToSet(d.comments) :
                            c.conversation_id = conv.id}
          IN /\ a.status = 200
             /\ a.data = NoData <=> \A c \in listed : ~Eligible(d, uid, c)
             /\ a.data # NoData =>
                   /\ \E c \in listed :
                         c.id = a.data.tid /\ Eligible(d, uid, c)
                   /\ \A vote \in {-1, 0, 1} :
                         LET b == create_vote(a.db, auth, cid, a.data.tid, vote)
                             n == get_next_comment(b.db, auth, cid)
                         IN /\ b.status = 200
                            /\ n.data # NoData => n.data.tid # a.data.tid

\* No step removes the vote of a user on a comment.
VotesKept ==
    \A i \in DOMAIN db.votes :
       \E j \in DOMAIN db'.votes :
          /\ db'.votes[j].user_id = db.votes[i].user_id
          /\ db'.votes[j].comment_id = db.votes[i].comment_id

\* C23: GET /nextComment for an authenticated user and an existing
\* conversation returns a comment of that conversation on which the user has
\* no vote and whose moderation_status is >= 0, and returns none exactly when
\* the conversation has no such comment; a vote is never removed, so a
\* comment the user has voted on is not returned to them again.
C23_NextComment == [](NextCommentAnswers(db)) /\ [][VotesKept]_vars

\* The second comment has just been returned although the first is not
\* rejected: the user asking has voted on the first.
C23_Witness ==
    /\ resp.op = "get_next_comment"
    /\ resp.status = 200
    /\ resp.data # NoData
    /\ resp.data.tid = 2
    /\ \E c \in ToSet(db.comments) : c.id = 1 /\ c.moderation_status = 0
    /\ \E v \in ToSet(db.votes) : v.comment_id = 1

\* C24: PUT /conversations by the owner is answered 200 and sets title,
\* description and archived flag from the fields the request carries; a
\* field the request leaves out keeps its value, nothing else stored
\* changes, and a request with conversation_id alone changes nothing.
C24_UpdateOnlyPresent ==
    \A auth \in AuthInputs, cid \in ConvIdInputs,
       c \in ToSet(db.conversations), topic \in TopicUpdates,
       description \in DescriptionUpdates, is_active \in ActiveUpdates :
       (/\ Authenticated(db, auth)
        /\ ResolvesTo(db, cid, c.id)
        /\ c.user_id = UidOf(db, auth)) =>
          LET a == update_conversation(db, auth, cid, topic, description,
                                       is_active)
              after == [c EXCEPT
                          !.title = IF topic = <<>> THEN @ ELSE Head(topic),
                          !.description =
                              IF description = <<>> THEN @ ELSE description,
                          !.is_archived =
                              IF is_active = <<>> THEN @ ELSE ~Head(is_active)]
          IN /\ a.status = 200
             /\ a.db = [db EXCEPT !.conversations =
                           [i \in DOMAIN @ |->
                               IF @[i].id = c.id THEN after ELSE @[i]]]
             /\ (topic = <<>> /\ description = <<>> /\ is_active = <<>>) =>
                   a.db = db
             /\ a.data.topic = after.title
             /\ a.data.is_active = ~after.is_archived

\* An update has just been answered 200 for a conversation whose topic and
\* archived flag earlier updates set and whose description none set.
C24_Witness ==
    /\ resp.op = "update_conversation"
    /\ resp.status = 200
    /\ \E c \in ToSet(db.conversations) :
          /\ c.title = "topic"
          /\ c.is_archived
          /\ c.description = <<>>

ZinvitesOf(d, zid) == {i \in DOMAIN d.zinvites : d.zinvites[i].zid = zid}

CodesOf(d, zid) == {d.zinvites[i].zinvite : i \in ZinvitesOf(d, zid)}

\* C29: every conversation has at most one zinvite; POST /zinvites/{zid} by
\* the owner leaves the conversation with the new code alone: a code issued
\* before resolves to nothing (404), and the new code resolves to the same
\* conversation.
C29_OneZinvite ==
    /\ \A c \in ToSet(db.conversations) :
          Cardinality(ZinvitesOf(db, c.id)) <= 1
    /\ \A auth \in AuthInputs, c \in ToSet(db.conversations) :
          (Authenticated(db, auth) /\ c.user_id = UidOf(db, auth)) =>
             LET a == create_zinvite(db, auth, c.id)
             IN /\ a.status = 200
                /\ Cardinality(ZinvitesOf(a.db, c.id)) = 1
                /\ get_zid_by_zinvite(a.db, a.data.zinvite) = c.id
                /\ \A i \in ZinvitesOf(db, c.id) :
                      /\ get_zid_by_zinvite(a.db, db.zinvites[i].zinvite) = 0
                      /\ get_conversations(a.db, auth,
                             <<db.zinvites[i].zinvite>>).status = 404
                /\ \A e \in ToSet(db.conversations) :
                      e.id # c.id => CodesOf(a.db, e.id) = CodesOf(db, e.id)

\* The owner has just regenerated the invite code of the conversation.
C29_Witness ==
    /\ resp.op = "create_zinvite"
    /\ resp.status = 200
    /\ Len(db.zinvites) = 1
    /\ db.zinvites[1].zinvite = resp.data.zinvite
    /\ db.zinvites[1].zinvite # 1

\* The tokens a request can present: the token POST /auth/new and POST
\* /auth/login issue to each account, and one that was never issued.
TokenInputs(d) ==
    {create_token(u.id, u.email) : u \in ToSet(d.users)}
        \cup {<<"token", 0, "never issued">>}

\* C25: a request is resolved to user U only if the token it presents, as
\* Bearer header or as token2 cookie, was issued to U.
C25_TokenBinding ==
    \A token \in TokenInputs(db), uid2 \in Uid2Inputs,
       u \in ToSet(db.users) :
       \A auth \in {Credentials(<<token>>, <<>>, uid2),
                     Credentials(<<>>, <<token>>, uid2)} :
          get_current_user(db, auth) = <<u.id>> => token[2] = u.id

\* The comments of conversation zid on which user uid has a vote.
VotedComments(d, zid, uid) ==
    {c \in ToSet(d.comments) :
        c.conversation_id = zid /\ VotesOf(d, uid, c.id) # {}}

\* C26: the vote_count of the participant of a user in a conversation is
\* the number of comments of that conversation on which the user has a
\* vote, whatever tid and conversation_id the POST /votes requests carried.
C26_VoteCount ==
    \A p \in ToSet(db.participants) :
       p.uid # 0 =>
          p.vote_count = Cardinality(VotedComments(db, p.zid, p.uid))

\* C27: after any sequence of POST /auth/new and PUT /users requests, no
\* two accounts have the same email.
C27_EmailUnique ==
    \A i, j \in DOMAIN db.users :
       db.users[i].email = db.users[j].email => i = j

\* At most one participant for each conversation and user.
OneParticipant(d) ==
    \A i, j \in DOMAIN d.participants :
       (/\ d.participants[i].uid # 0
        /\ d.participants[i].uid = d.participants[j].uid
        /\ d.participants[i].zid = d.participants[j].zid) => i = j

\* Store d2 is what a joining request of auth for conversation cid left of
\* store d: participants stay unique, and when the user was a participant
\* of the conversation already, none is created and the conversation's
\* participant count is as it was.
Joined(d, auth, cid, d2) ==
    LET user == get_current_user(d, auth)
        zid == get_zid_by_zinvite(d, cid)
    IN /\ OneParticipant(d2)
       /\ (/\ user # <<>>
           /\ get_participant_by_zid_uid(d, zid, Head(user)) # <<>>)
          => /\ Len(d2.participants) = Len(d.participants)
             /\ count_participants(d2, zid) = count_participants(d, zid)

\* C28: there is at most one participant per conversation and user, before
\* and after each of POST /participants, POST /joinWithInvite, POST
\* /comments, GET /nextComment, GET /participationInit and POST /votes; such
\* a request of a user who is already a participant of the conversation
\* creates no participant and leaves the participant count as it was.
C28_OneParticipant ==
    /\ OneParticipant(db)
    /\ \A auth \in AuthInputs, cid \in ConvIdInputs :
          /\ Joined(db, auth, cid, join_conversation(db, auth, cid).db)
          /\ Joined(db, auth, cid, join_with_invite(db, auth, cid).db)
          /\ Joined(db, auth, cid, create_comment(db, auth, cid, "text").db)
          /\ Joined(db, auth, cid, get_next_comment(db, auth, cid).db)
          /\ Joined(db, auth, cid, participation_init(db, auth, <<cid>>).db)
          /\ \A tid \in TidInputs, vote \in VoteInputs :
                Joined(db, auth, cid,
                       create_vote(db, auth, cid, tid, vote).db)

\* A user joined a conversation and was answered with the participant the
\* user already had, after another participant had been created.
C28_Witness ==
    /\ resp.op = "join_conversation"
    /\ resp.status = 200
    /\ resp.data.pid < Len(db.participants)
    /\ Len(db.participants) > Len(start.participants)

\* C30: every entry of the votes list of an authenticated GET
\* /participationInit?conversation_id=c is a vote on a comment of
\* conversation c.
C30_VotesOfConversation ==
    \A auth \in AuthInputs, cid \in ConvIdInputs :
       LET a == participation_init(db, auth, <<cid>>)
           zid == get_zid_by_zinvite(db, cid)
       IN (get_current_user(db, auth) # <<>> /\ a.status = 200) =>
             \A i \in DOMAIN a.data.votes :
                \E c \in ToSet(db.comments) :
                   /\ c.id = a.data.votes[i].tid
                   /\ c.conversation_id = zid

\* Two requests served in parallel have both been answered.
ParallelDone ==
    /\ inflight # <<>>
    /\ \A i \in DOMAIN inflight : inflight[i].pc = "done"

\* The (user, comment) pair a request addresses.
CellOf(r) == <<UidOf(start, r.auth), r.tid>>

\* The store after r1 and then r2, each run to completion, from store d.
OneAfterOther(d, r1, r2) ==
    LET Again(r) == VoteRequest(r.auth, r.conversation_id, r.tid, r.vote)
    IN create_vote_run(create_vote_run(d, Again(r1)).db, Again(r2)).db

Cells(d) ==
    {[uid |-> v.user_id, tid |-> v.comment_id, value |-> v.value] :
        v \in ToSet(d.votes)}

Counters(d) ==
    {[zid |-> p.zid, uid |-> p.uid, vote_count |-> p.vote_count] :
        p \in ToSet(d.participants)}

SameCells(d, e) == Cells(d) = Cells(e) /\ Counters(d) = Counters(e)

\* C7: two POST /votes requests of one user for one comment, their
\* DatabaseActor calls interleaved, end in the state of one of the two
\* sequential executions: one vote record for the pair, and the vote
\* counters of that execution.
C7_SamePairSerializable ==
    (ParallelDone /\ CellOf(inflight[1]) = CellOf(inflight[2])) =>
       /\ Cardinality(VotesOf(db, CellOf(inflight[1])[1],
                              CellOf(inflight[1])[2])) = 1
       /\ \/ SameCells(db, OneAfterOther(start, inflight[1], inflight[2]))
          \/ SameCells(db, OneAfterOther(start, inflight[2], inflight[1]))

\* C8: two POST /votes requests that address different (user, comment) pairs
\* end, in either order and under every interleaving of their DatabaseActor
\* calls, with the same stored value for every pair and the same vote counter
\* for every participant.
C8_DifferentCellsCommute ==
    (ParallelDone /\ CellOf(inflight[1]) # CellOf(inflight[2])) =>
       /\ SameCells(db, OneAfterOther(start, inflight[1], inflight[2]))
       /\ SameCells(db, OneAfterOther(start, inflight[2], inflight[1]))

\* Two requests of one user for two comments of one conversation have both
\* been answered 200, each having created its vote record.
C8_Witness ==
    /\ ParallelDone
    /\ CellOf(inflight[1])[1] = CellOf(inflight[2])[1]
    /\ inflight[1].tid # inflight[2].tid
    /\ inflight[1].zid = inflight[2].zid
    /\ \A i \in DOMAIN inflight :
          inflight[i].status = 200 /\ inflight[i].existing = <<>>
    /\ Len(db.votes) = Len(start.votes) + 2

====
